---- MODULE Spec2Model ----
(***************************************************************************)
(* Model of InfoEx/infoex-autowx.py: one run of main(), from               *)
(* setup_config to the CSV write and upload.                               *)
(*                                                                         *)
(* Values.  A cell of the record, a sample and a reduced value are all     *)
(* records [t, n, d, s]: t = "None" is Python's None, t = "str" a string   *)
(* s, t = "num" the exact rational n/d (d > 0, lowest terms), and          *)
(* t = "date" / "time" the strftime renderings of the window end.  Floats  *)
(* are modelled as exact rationals; round() rounds half to even as         *)
(* Python's round does.                                                    *)
(***************************************************************************)
EXTENDS Integers, Sequences, FiniteSets, TLC

\* ------------------------------------------------------------------ bounds
\* Greatest number of samples in one raw series.
MaxLen == 3

\* ------------------------------------------------------------- value model
None == [t |-> "None", n |-> 0, d |-> 1, s |-> ""]
Str(x) == [t |-> "str", n |-> 0, d |-> 1, s |-> x]

Abs(a) == IF a < 0 THEN 0 - a ELSE a

RECURSIVE GCD(_, _)
GCD(a, b) == IF b = 0 THEN a ELSE GCD(b, a % b)

\* The rational a/b in lowest terms with a positive denominator (b # 0).
Num(a, b) ==
    LET g == GCD(Abs(a), Abs(b))
        sg == IF b < 0 THEN 0 - 1 ELSE 1
    IN  [t |-> "num", n |-> sg * (a \div g), d |-> sg * (b \div g), s |-> ""]

IsNum(v) == v.t = "num"

\* Arithmetic on a value that is not a number (None, a string) raises
\* TypeError; the exception is carried as a value that absorbs every
\* operation applied to it.
TypeError == [t |-> "TypeError", n |-> 0, d |-> 1, s |-> ""]

RatAdd(x, y) ==
    IF ~IsNum(x) \/ ~IsNum(y) THEN TypeError
    ELSE LET g == GCD(x.d, y.d)
             l == (x.d \div g) * y.d
         IN  Num(x.n * (l \div x.d) + y.n * (l \div y.d), l)

RatNeg(x) == IF ~IsNum(x) THEN TypeError ELSE Num(0 - x.n, x.d)

RatSub(x, y) == RatAdd(x, RatNeg(y))

\* Cross-reduced before multiplying, so that the products stay small.
RatMul(x, y) ==
    IF ~IsNum(x) \/ ~IsNum(y) THEN TypeError
    ELSE LET g1 == GCD(Abs(x.n), y.d)
             g2 == GCD(Abs(y.n), x.d)
             a == IF g1 = 0 THEN 1 ELSE g1
             b == IF g2 = 0 THEN 1 ELSE g2
         IN  Num((x.n \div a) * (y.n \div b), (x.d \div b) * (y.d \div a))

\* x / k for an integer k > 0 (sum(values) / len(values)).
RatDivInt(x, k) == RatMul(x, Num(1, k))

RECURSIVE Pow10(_)
Pow10(k) == IF k = 0 THEN 1 ELSE 10 * Pow10(k - 1)

\* round(x, k): the multiple of 10^-k nearest to x, ties to the even one.
Round(x, k) ==
    IF ~IsNum(x) THEN TypeError
    ELSE LET y == RatMul(x, Num(Pow10(k), 1))
             f == y.n \div y.d
             r == y.n - f * y.d
             q == IF 2 * r < y.d THEN f
                  ELSE IF 2 * r > y.d THEN f + 1
                  ELSE IF f % 2 = 0 THEN f ELSE f + 1
         IN  Num(q, Pow10(k))

\* ------------------------------------------------------- unit conversions
f_to_c(f) == RatMul(RatSub(f, Num(32, 1)), Num(5, 9))

in_to_cm(inches) == RatMul(inches, Num(254, 100))

in_to_mm(inches) == RatMul(RatMul(inches, Num(254, 100)), Num(10, 1))

kn_to_mph(kn) == RatMul(kn, Num(1150779, 1000000))

mm_to_cm(mm) == RatDivInt(mm, 10)

convert_nrcs_units_to_metric(element_cd, value) ==
    IF element_cd = "TOBS" THEN f_to_c(value)
    ELSE IF element_cd = "SNWD" THEN in_to_cm(value)
    ELSE IF element_cd = "PREC" THEN in_to_mm(value)
    ELSE value

\* ------------------------------------------------------------ field tables
\* setup_infoex_fields_mapping: the names of the positions, in schema order.
FieldOrder ==
    << "Location UUID", "obDate", "obTime", "timeZone",
       "tempMaxHour", "tempMaxHourUnit", "tempMinHour", "tempMinHourUnit",
       "tempPres", "tempPresUnit", "precipitationGauge",
       "precipitationGaugeUnit", "windSpeedNum", "windSpeedUnit",
       "windDirectionNum", "hS", "hsUnit", "baro", "baroUnit", "rH",
       "windGustSpeedNum", "windGustSpeedNumUnit", "windGustDirNum",
       "dewPoint", "dewPointUnit", "hn24Auto", "hn24AutoUnit",
       "hstAuto", "hstAutoUnit" >>

NumFields == 29

Positions == 0 .. (NumFields - 1)

\* fmap[name] is the 0-based position of the field, as in the source.
fmap ==
    [name \in {FieldOrder[i] : i \in 1 .. Len(FieldOrder)} |->
        (CHOOSE i \in 1 .. Len(FieldOrder) : FieldOrder[i] = name) - 1]

\* The unit labels the schema presets (imperial).
DefaultUnits ==
    [tempMaxHourUnit |-> "F", tempMinHourUnit |-> "F", tempPresUnit |-> "F",
     precipitationGaugeUnit |-> "in", windSpeedUnit |-> "mph",
     hsUnit |-> "in", baroUnit |-> "inHg", windGustSpeedNumUnit |-> "mph",
     dewPointUnit |-> "F", hn24AutoUnit |-> "in", hstAutoUnit |-> "in"]

UnitFields == DOMAIN DefaultUnits

\* InitialFinalData one position short: [None] * 28.
InitialFinalDataShort(location_uuid) ==
    [i \in Positions \ {NumFields - 1} |->
        LET name == FieldOrder[i + 1]
        IN  IF name = "Location UUID" THEN Str(location_uuid)
            ELSE IF name = "timeZone" THEN Str("Pacific")
            ELSE IF name \in UnitFields THEN Str(DefaultUnits[name])
            ELSE None]

\* final_data as setup_infoex_fields_mapping leaves it.
InitialFinalData(location_uuid) ==
    [i \in Positions |->
        LET name == FieldOrder[i + 1]
        IN  IF name = "Location UUID" THEN Str(location_uuid)
            ELSE IF name = "timeZone" THEN Str("Pacific")
            ELSE IF name \in UnitFields THEN Str(DefaultUnits[name])
            ELSE None]

\* The labels switch_units_to_metric writes.
MetricUnits ==
    [tempMaxHourUnit |-> "C", tempMinHourUnit |-> "C", tempPresUnit |-> "C",
     precipitationGaugeUnit |-> "mm", hsUnit |-> "cm",
     windSpeedUnit |-> "m/s", windGustSpeedNumUnit |-> "m/s",
     dewPointUnit |-> "C", hn24AutoUnit |-> "cm", hstAutoUnit |-> "cm"]

\* switch_units_to_metric without its last assignment (hstAutoUnit).
switch_units_to_metric_short(data_map, mapping) ==
    [i \in DOMAIN data_map |->
        IF \E u \in DOMAIN MetricUnits \ {"hstAutoUnit"} : mapping[u] = i
        THEN Str(MetricUnits[CHOOSE u \in DOMAIN MetricUnits : mapping[u] = i])
        ELSE data_map[i]]

switch_units_to_metric(data_map, mapping) ==
    [i \in DOMAIN data_map |->
        IF \E u \in DOMAIN MetricUnits : mapping[u] = i
        THEN Str(MetricUnits[CHOOSE u \in DOMAIN MetricUnits : mapping[u] = i])
        ELSE data_map[i]]

NrcsMap ==
    [PREC |-> "precipitationGauge", TOBS |-> "tempPres",
     TMAX |-> "tempMaxHour", TMIN |-> "tempMinHour", SNWD |-> "hS",
     PRES |-> "baro", RHUM |-> "rH", WSPD |-> "windSpeedNum",
     WDIR |-> "windDirectionNum"]

\* MesowestMap with the derived hn24 mapped to the snow height position,
\* which snow_depth has already.
MesowestMapHn24OnHs ==
    [precip_accum |-> "precipitationGauge", air_temp |-> "tempPres",
     air_temp_high_24_hour |-> "tempMaxHour",
     air_temp_low_24_hour |-> "tempMinHour", snow_depth |-> "hS",
     pressure |-> "baro", relative_humidity |-> "rH",
     wind_speed |-> "windSpeedNum", wind_direction |-> "windDirectionNum",
     wind_gust |-> "windGustSpeedNum", hn24 |-> "hS"]

MesowestMap ==
    [precip_accum |-> "precipitationGauge", air_temp |-> "tempPres",
     air_temp_high_24_hour |-> "tempMaxHour",
     air_temp_low_24_hour |-> "tempMinHour", snow_depth |-> "hS",
     pressure |-> "baro", relative_humidity |-> "rH",
     wind_speed |-> "windSpeedNum", wind_direction |-> "windDirectionNum",
     wind_gust |-> "windGustSpeedNum", hn24 |-> "hn24Auto"]

PythonMap ==
    [precipitationGauge |-> "precipitationGauge", tempPres |-> "tempPres",
     tempMaxHour |-> "tempMaxHour", tempMinHour |-> "tempMinHour",
     hS |-> "hS", baro |-> "baro", rH |-> "rH",
     windSpeedNum |-> "windSpeedNum",
     windDirectionNum |-> "windDirectionNum",
     windGustSpeedNum |-> "windGustSpeedNum"]

setup_infoex_counterparts_mapping(provider) ==
    IF provider = "nrcs" THEN NrcsMap
    ELSE IF provider = "mesowest" THEN MesowestMap
    ELSE IF provider = "python" THEN PythonMap
    ELSE [x \in {} |-> ""]

\* The element names the precision massage of main lists, by decimal places.
Round0Elements ==
    {"wind_speed", "WSPD", "wind_direction", "RHUM", "relative_humidity",
     "WDIR", "wind_gust", "SNWD", "snow_depth", "hn24"}

Round1Elements == {"TOBS", "air_temp", "PRES", "pressure"}

Round2Elements == {"PREC", "precip_accum"}

MassagePrecision(element_cd, value) ==
    IF element_cd \in Round0Elements THEN Round(value, 0)
    ELSE IF element_cd \in Round1Elements THEN Round(value, 1)
    ELSE IF element_cd \in Round2Elements THEN Round(value, 2)
    ELSE value

\* ------------------------------------------------------------ dictionaries
\* A Python dict: keys in insertion order, val the mapping.
EmptyDict == [keys |-> << >>, val |-> [x \in {} |-> None]]

DictSet(dct, k, v) ==
    IF k \in DOMAIN dct.val
    THEN [dct EXCEPT !.val[k] = v]
    ELSE [keys |-> Append(dct.keys, k), val |-> dct.val @@ (k :> v)]

\* `not x` of Python for a sample: None, 0 and 0.0 are all false.
Falsy(v) == v = None \/ (IsNum(v) /\ v.n = 0)

RECURSIVE Sum(_)
Sum(values) ==
    IF values = << >> THEN Num(0, 1)
    ELSE RatAdd(values[1], Sum(Tail(values)))

\* ------------------------------------------------------------ get_nrcs_data
\* ordered[0] of sorted(values, key=dateTime, reverse=True): the sorting is
\* stable, so among equal timestamps the first of the input comes first.
NrcsNewest(values) ==
    values[CHOOSE i \in 1 .. Len(values) :
              \A j \in 1 .. Len(values) :
                  \/ values[j].dateTime < values[i].dateTime
                  \/ (values[j].dateTime = values[i].dateTime /\ i <= j)]

\* The value get_nrcs_data stores for one element, given the `values` of
\* the getHourlyData response.
NrcsReduce(values) ==
    IF values # << >> THEN NrcsNewest(values).value ELSE None

\* -------------------------------------------------------- get_mesowest_data
MesoAcc ==
    [remote_data |-> EmptyDict, wind_speed_values |-> << >>,
     wind_gust_speed_values |-> << >>, wind_direction_values |-> << >>,
     hn24_values |-> << >>]

\* The unit conversions of the sample loop.
MesoConvert(element_cd, val, station) ==
    LET v1 == IF element_cd \in {"wind_speed", "wind_gust"}
              THEN kn_to_mph(val) ELSE val
    IN  IF element_cd = "snow_depth" /\ station.units = "metric"
        THEN mm_to_cm(v1) ELSE v1

\* MesoSampleLoop without the test that skips a None sample.
RECURSIVE MesoSampleLoopNoSkip(_, _, _, _, _, _)
MesoSampleLoopNoSkip(element_cd, series, pos, station, idx, acc) ==
    IF idx > Len(series) THEN acc
    ELSE
      LET val == MesoConvert(element_cd, series[idx], station)
          a1 == IF station.wind_mode = "average"
                THEN IF element_cd = "wind_speed"
                     THEN [acc EXCEPT !.wind_speed_values = Append(@, val)]
                     ELSE IF element_cd = "wind_gust"
                     THEN [acc EXCEPT !.wind_gust_speed_values = Append(@, val)]
                     ELSE IF element_cd = "wind_direction"
                     THEN [acc EXCEPT !.wind_direction_values = Append(@, val)]
                     ELSE acc
                ELSE acc
          a2 == IF element_cd = "snow_depth"
                THEN [a1 EXCEPT !.hn24_values = Append(@, val)]
                ELSE a1
          a3 == IF idx = pos
                THEN [a2 EXCEPT !.remote_data = DictSet(@, element_cd, val)]
                ELSE a2
      IN  MesoSampleLoopNoSkip(element_cd, series, pos, station, idx + 1, a3)

\* The loop over the samples of one key; idx and pos are 1-based here.
RECURSIVE MesoSampleLoop(_, _, _, _, _, _)
MesoSampleLoop(element_cd, series, pos, station, idx, acc) ==
    IF idx > Len(series) THEN acc
    ELSE IF series[idx] = None
    THEN MesoSampleLoop(element_cd, series, pos, station, idx + 1, acc)
    ELSE
      LET val == MesoConvert(element_cd, series[idx], station)
          a1 == IF station.wind_mode = "average"
                THEN IF element_cd = "wind_speed"
                     THEN [acc EXCEPT !.wind_speed_values = Append(@, val)]
                     ELSE IF element_cd = "wind_gust"
                     THEN [acc EXCEPT !.wind_gust_speed_values = Append(@, val)]
                     ELSE IF element_cd = "wind_direction"
                     THEN [acc EXCEPT !.wind_direction_values = Append(@, val)]
                     ELSE acc
                ELSE acc
          a2 == IF element_cd = "snow_depth"
                THEN [a1 EXCEPT !.hn24_values = Append(@, val)]
                ELSE a1
          a3 == IF idx = pos
                THEN [a2 EXCEPT !.remote_data = DictSet(@, element_cd, val)]
                ELSE a2
      IN  MesoSampleLoop(element_cd, series, pos, station, idx + 1, a3)

\* MesoElement without the else branch that fills in an omitted key.
MesoElementDropsMissing(element_cd, observations, station, acc) ==
    LET pos == Len(observations.date_time)
    IN  IF element_cd \in DOMAIN observations.sets
        THEN LET a == MesoSampleLoop(element_cd, observations.sets[element_cd],
                                     pos, station, 1, acc)
             IN  IF Falsy(observations.sets[element_cd][pos])
                 THEN [a EXCEPT !.remote_data = DictSet(@, element_cd, None)]
                 ELSE a
        ELSE acc

\* One iteration of the loop over station['desired_data'].
MesoElement(element_cd, observations, station, acc) ==
    LET pos == Len(observations.date_time)
    IN  IF element_cd \in DOMAIN observations.sets
        THEN LET a == MesoSampleLoop(element_cd, observations.sets[element_cd],
                                     pos, station, 1, acc)
             IN  IF Falsy(observations.sets[element_cd][pos])
                 THEN [a EXCEPT !.remote_data = DictSet(@, element_cd, None)]
                 ELSE a
        ELSE [acc EXCEPT !.remote_data = DictSet(@, element_cd, None)]

RECURSIVE MesoElements(_, _, _, _)
MesoElements(desired, observations, station, acc) ==
    IF desired = << >> THEN acc
    ELSE MesoElements(Tail(desired), observations, station,
                      MesoElement(Head(desired), observations, station, acc))

\* Hn24Of with the operands exchanged: newest minus oldest.
Hn24OfNewestMinusOldest(hn24_values) ==
    LET hn24 == RatSub(hn24_values[Len(hn24_values)], hn24_values[1])
    IN  IF hn24.n < 0 THEN Num(0, 1) ELSE hn24

\* hn24_values[0] - hn24_values[len - 1], negative clamped to 0.0.
Hn24Of(hn24_values) ==
    LET hn24 == RatSub(hn24_values[1], hn24_values[Len(hn24_values)])
    IN  IF hn24.n < 0 THEN Num(0, 1) ELSE hn24

Average(values) == RatDivInt(Sum(values), Len(values))

\* The part of get_mesowest_data after the loop over the elements.
MesoFinish(acc) ==
    LET r0 == acc.remote_data
        r1 == IF Len(acc.hn24_values) > 0
              THEN DictSet(r0, "hn24", Hn24Of(acc.hn24_values)) ELSE r0
        r2 == IF Len(acc.wind_speed_values) > 0
              THEN DictSet(r1, "wind_speed", Average(acc.wind_speed_values))
              ELSE r1
        r3 == IF Len(acc.wind_gust_speed_values) > 0
              THEN DictSet(r2, "wind_gust",
                           Average(acc.wind_gust_speed_values))
              ELSE r2
    IN  IF Len(acc.wind_direction_values) > 0
        THEN DictSet(r3, "wind_direction", Average(acc.wind_direction_values))
        ELSE r3

\* remote_data as get_mesowest_data returns it for a well-formed payload.
get_mesowest_data(observations, station) ==
    MesoFinish(MesoElements(station.desired_data, observations, station,
                            MesoAcc))

\* -------------------------------------------------------------- the inputs
\* Sample values: a missing sample, zero, and 1.128, which every rounding
\* precision and every conversion changes.
SampleValues == {None, Num(0, 1), Num(141, 125)}

Providers == {"nrcs", "mesowest", "python"}

ValidTimezones == {"America/Denver", "America/Los_Angeles"}

\* Requests of one element, for every element a provider maps and one it
\* does not.
NrcsSingles == {<<e>> : e \in DOMAIN NrcsMap \cup {"DPTP"}}

MesowestSingles ==
    {<<e>> : e \in (DOMAIN MesowestMap \ {"hn24"}) \cup {"dew_point_temperature"}}

\* Requests of two elements.
NrcsPairs == {<<"SNWD", "TOBS">>, <<"DPTP", "WSPD">>}

MesowestPairs ==
    {<<"snow_depth", "air_temp">>, <<"dew_point_temperature", "wind_speed">>,
     <<"wind_gust", "wind_direction">>}

\* Key lists of the dict a custom program returns ("dewPoint" is a field of
\* the record that the counterparts mapping does not contain).
PythonMenus ==
    {<<e>> : e \in DOMAIN PythonMap \cup {"dewPoint"}}
        \cup {<<"tempPres", "dewPoint">>, <<"hS", "rH">>, <<"rH", "hS">>}

SinglesOf(provider) ==
    IF provider = "nrcs" THEN NrcsSingles
    ELSE IF provider = "mesowest" THEN MesowestSingles
    ELSE {<< >>}

PairsOf(provider) ==
    IF provider = "nrcs" THEN NrcsPairs
    ELSE IF provider = "mesowest" THEN MesowestPairs
    ELSE {}

SnowMenuOf(provider) ==
    IF provider = "nrcs" THEN <<"SNWD">>
    ELSE IF provider = "mesowest" THEN <<"snow_depth">>
    ELSE << >>

DataConfig(p, u, w, m) ==
    [provider |-> p, units |-> u, tz |-> "America/Denver", hn24 |-> "true",
     wind_mode |-> w, desired_data |-> m]

\* Every request of one element under each valid unit system and wind mode,
\* and the requests of two elements under two of those settings.
ConfigsData ==
    UNION {{DataConfig(p, u, w, m) :
              u \in {"imperial", "metric"}, w \in {"normal", "average"},
              m \in SinglesOf(p)} : p \in Providers}
    \cup UNION {{DataConfig(p, x[1], x[2], m) :
              x \in {<<"imperial", "normal">>, <<"metric", "average">>},
              m \in PairsOf(p)} : p \in Providers}

\* Every combination of settings, valid or not, for a snow-depth request.
ConfigsSetup ==
    {[provider |-> p, units |-> u, tz |-> z, hn24 |-> h, wind_mode |-> w,
      desired_data |-> m] :
        p \in Providers \cup {"wunderground"},
        u \in {"imperial", "metric", "kelvin"},
        z \in {"America/Denver", "Mars/Olympus"},
        h \in {"absent", "true", "false", "maybe"},
        w \in {"absent", "normal", "average", "gusty"},
        m \in {<<"SNWD">>, <<"snow_depth">>, << >>}}

\* Orders of n timestamps: oldest first, every rotation of that, and newest
\* first.
Orders(n) ==
    {[i \in 1 .. n |-> ((i + k - 1) % n) + 1] : k \in 0 .. (n - 1)}
        \cup {[i \in 1 .. n |-> n + 1 - i]}

\* The `values` of one getHourlyData response with n samples: distinct
\* timestamps in order p and the sample values v.
NrcsValues(n, p, v) == [i \in 1 .. n |-> [dateTime |-> p[i], value |-> v[i]]]

\* The OBSERVATIONS of a MesoWest response: n >= 1 timestamps, oldest first,
\* and for each element the station reports one sample per timestamp (a
\* station with nothing to report in the window is not listed at all, which
\* is the "unexpected JSON" failure).
MesowestObservations(n, f) == [date_time |-> [i \in 1 .. n |-> i], sets |-> f]

Elements(desired) == {desired[i] : i \in 1 .. Len(desired)}

\* The ten keys of examples/custom-wx.example.py, in its order.
PythonAllKeys ==
    <<"precipitationGauge", "tempPres", "tempMaxHour", "tempMinHour", "hS",
      "baro", "rH", "windSpeedNum", "windDirectionNum", "windGustSpeedNum">>

\* The dicts a custom program returns: every assignment of sample values to
\* a short key list, and all ten keys with one value for all.
PythonResponses ==
    UNION {{[keys |-> m, val |-> f] :
              f \in [{m[i] : i \in 1 .. Len(m)} -> SampleValues]} :
           m \in PythonMenus}
    \cup {[keys |-> PythonAllKeys, val |-> [k \in DOMAIN PythonMap |-> v]] :
             v \in SampleValues}

\* ------------------------------------------------------------- setup_config
NoStation ==
    [provider |-> "", units |-> "", tz |-> "", hn24 |-> FALSE,
     wind_mode |-> "", num_hrs_to_fetch |-> 0, desired_data |-> << >>]

DefaultHours == 3

FullDayHours == 24

\* setup_config with the wind mode deciding the window alone: a wind mode
\* other than 'average' puts the window back to the default.
setup_config_wind_decides(cfg) ==
    LET tzname == IF cfg.tz = "absent" THEN "America/Los_Angeles" ELSE cfg.tz
        mode == IF cfg.wind_mode = "absent" THEN "normal" ELSE cfg.wind_mode
        ok == /\ cfg.provider \in {"nrcs", "mesowest", "python"}
              /\ tzname \in ValidTimezones
              /\ cfg.hn24 \in {"absent", "true", "false"}
              /\ mode \in {"normal", "average"}
    IN  IF ~ok
        THEN [ok |-> FALSE, station |-> NoStation]
        ELSE [ok |-> TRUE,
              station |->
                [provider |-> cfg.provider,
                 units |-> IF cfg.provider = "python" THEN "" ELSE cfg.units,
                 tz |-> tzname,
                 hn24 |-> (cfg.hn24 = "true"),
                 wind_mode |-> mode,
                 num_hrs_to_fetch |-> IF mode = "average" THEN FullDayHours
                                      ELSE DefaultHours,
                 desired_data |-> IF cfg.provider = "python" THEN << >>
                                  ELSE cfg.desired_data]]

\* The station setup_config returns, and whether it returns at all
\* (ok = FALSE: sys.exit(1)).
setup_config(cfg) ==
    LET tzname == IF cfg.tz = "absent" THEN "America/Los_Angeles" ELSE cfg.tz
        hrs1 == IF cfg.hn24 = "true" THEN FullDayHours ELSE DefaultHours
        mode == IF cfg.wind_mode = "absent" THEN "normal" ELSE cfg.wind_mode
        hrs2 == IF mode = "average" THEN FullDayHours ELSE hrs1
    IN  IF cfg.provider \notin {"nrcs", "mesowest", "python"}
        THEN [ok |-> FALSE, station |-> NoStation]
        ELSE IF tzname \notin ValidTimezones
        THEN [ok |-> FALSE, station |-> NoStation]
        ELSE IF cfg.hn24 \notin {"absent", "true", "false"}
        THEN [ok |-> FALSE, station |-> NoStation]
        ELSE IF mode \notin {"normal", "average"}
        THEN [ok |-> FALSE, station |-> NoStation]
        ELSE [ok |-> TRUE,
              station |->
                [provider |-> cfg.provider,
                 units |-> IF cfg.provider = "python" THEN "" ELSE cfg.units,
                 tz |-> tzname,
                 hn24 |-> (cfg.hn24 = "true"),
                 wind_mode |-> mode,
                 num_hrs_to_fetch |-> hrs2,
                 desired_data |-> IF cfg.provider = "python" THEN << >>
                                  ELSE cfg.desired_data]]

\* -------------------------------------------------------- setup_time_values
\* Instants are seconds since an epoch that is a midnight UTC.
SecondsOf(now) == now % 60

MinuteOf(now) == (now \div 60) % 60

\* Both zones of ValidTimezones are a whole number of hours from UTC, so
\* flooring to the hour gives the same instant in either; the zone only
\* shows in the rendering of the date and the time of day.
UtcOffsetHours(tz) == IF tz = "America/Denver" THEN 0 - 7 ELSE 0 - 8

\* setup_time_values that floors the minutes only and keeps the seconds.
setup_time_values_keeps_seconds(now, station) ==
    LET end_date == now - 60 * (MinuteOf(now) % 60)
    IN  [begin_date |-> end_date - 3600 * station.num_hrs_to_fetch,
         end_date |-> end_date]

setup_time_values(now, station) ==
    LET end_date == now - (60 * (MinuteOf(now) % 60) + SecondsOf(now))
    IN  [begin_date |-> end_date - 3600 * station.num_hrs_to_fetch,
         end_date |-> end_date]

\* strftime('%Y-%m-%d %H:%M:00') and strftime('%Y%m%d%H%M') keep an instant
\* to the minute; the pair is what a request carries as its begin and end.
MinuteString(instant) == instant - (instant % 60)

RequestWindow(begin, end) ==
    [begin_date |-> MinuteString(begin), end_date |-> MinuteString(end)]

\* strftime('%m/%d/%Y') and strftime('%H:%M') of an instant in a zone: the
\* day number and the minute of the day.
ObDate(instant, tz) ==
    [t |-> "date", n |-> (instant + 3600 * UtcOffsetHours(tz)) \div 86400,
     d |-> 1, s |-> ""]

ObTime(instant, tz) ==
    [t |-> "time", n |-> ((instant + 3600 * UtcOffsetHours(tz)) % 86400) \div 60,
     d |-> 1, s |-> ""]

\* Current times: inside an hour, its last second, and an exact hour.
Nows == {2 * 86400 + 3661, 2 * 86400 + 7199, 2 * 86400 + 7200}

FirstNow == 2 * 86400 + 3661

\* Every combination of zone and clock, for a snow-depth request under
\* otherwise default settings.
ConfigsClock ==
    {[provider |-> p, units |-> "imperial", tz |-> z, hn24 |-> h,
      wind_mode |-> "absent", desired_data |-> SnowMenuOf(p)] :
        p \in Providers, z \in {"absent", "America/Denver"},
        h \in {"absent", "true"}}

Inputs ==
    (ConfigsData \X {FirstNow})
    \cup ({c \in ConfigsSetup : c.desired_data = SnowMenuOf(c.provider)}
        \X {FirstNow})
    \cup (ConfigsClock \X Nows)

\* ------------------------------------------------------------ state machine
VARIABLES
    pc,          \* the statement of main the run is at
    config,      \* the [station] section of the ini file
    now,         \* the clock when setup_time_values reads it
    station,     \* station as setup_config returns it
    final_data,  \* the record under construction
    window,      \* (begin_date, end_date)
    response,    \* the payload of the last upstream response
    fetched,     \* number of elements get_nrcs_data has requested
    wx_data,     \* infoex['wx_data']
    assembled,   \* number of keys of wx_data the assembly loop has handled
    warnings,    \* the elements logged as BAD KEY
    status,      \* exit status of the process, -1 while it runs
    csv_written, \* whether write_local_csv has run
    csv_row,     \* the row it wrote
    uploaded     \* whether upload_csv has run

vars ==
    <<pc, config, now, station, final_data, window, response, fetched,
      wx_data, assembled, warnings, status, csv_written, csv_row, uploaded>>

NoRecord == [i \in {} |-> None]

NoWindow == [begin_date |-> 0, end_date |-> 0]

NoResponse == [kind |-> "none", values |-> << >>,
               observations |-> [date_time |-> << >>, sets |-> NoRecord],
               requested |-> NoWindow]

Running == 0 - 1

LocationUuid == "location-uuid"

Init ==
    /\ \E inp \in Inputs : config = inp[1] /\ now = inp[2]
    /\ pc = "setup_config"
    /\ station = NoStation
    /\ final_data = NoRecord
    /\ window = NoWindow
    /\ response = NoResponse
    /\ fetched = 0
    /\ wx_data = EmptyDict
    /\ assembled = 0
    /\ warnings = {}
    /\ status = Running
    /\ csv_written = FALSE
    /\ csv_row = NoRecord
    /\ uploaded = FALSE

\* Die with the status of a successful run: sys.exit(0).
DieWithStatusZero ==
    /\ pc' = "failed"
    /\ status' = 0

\* sys.exit(1), or an exception nothing catches: the interpreter exits
\* with status 1.
Die ==
    /\ pc' = "failed"
    /\ status' = 1

\* main, line 235: (infoex, station) = setup_config(config)
SetupConfig ==
    /\ pc = "setup_config"
    /\ LET r == setup_config(config)
       IN  IF r.ok
           THEN /\ station' = r.station
                /\ pc' = "setup_mappings"
                /\ UNCHANGED status
           ELSE /\ Die
                /\ UNCHANGED station
    /\ UNCHANGED <<config, now, final_data, window, response, fetched,
                   wx_data, assembled, warnings, csv_written, csv_row,
                   uploaded>>

\* main, lines 240-241: the record with its schema defaults.
SetupMappings ==
    /\ pc = "setup_mappings"
    /\ final_data' = InitialFinalData(LocationUuid)
    /\ pc' = "switch_units"
    /\ UNCHANGED <<config, now, station, window, response, fetched, wx_data,
                   assembled, warnings, status, csv_written, csv_row,
                   uploaded>>

\* main, lines 243-245.
SwitchUnits ==
    /\ pc = "switch_units"
    /\ final_data' =
          IF station.provider # "python" /\ station.units = "metric"
          THEN switch_units_to_metric(final_data, fmap)
          ELSE final_data
    /\ pc' = "setup_time_values"
    /\ UNCHANGED <<config, now, station, window, response, fetched, wx_data,
                   assembled, warnings, status, csv_written, csv_row,
                   uploaded>>

\* main, line 247.
SetupTimeValues ==
    /\ pc = "setup_time_values"
    /\ window' = setup_time_values(now, station)
    /\ pc' = "get_data"
    /\ UNCHANGED <<config, now, station, final_data, response, fetched,
                   wx_data, assembled, warnings, status, csv_written,
                   csv_row, uploaded>>

\* get_nrcs_data, lines 476-501: one getHourlyData request and the reduction
\* of its answer.  The dict is handed to main after the last element.
NrcsRequest ==
    /\ pc = "get_data"
    /\ station.provider = "nrcs"
    /\ fetched < Len(station.desired_data)
    /\ \E n \in 0 .. MaxLen :
       \E p \in Orders(n), v \in [1 .. n -> SampleValues] :
          LET values == NrcsValues(n, p, v)
          IN  /\ response' = [NoResponse EXCEPT
                                 !.kind = "nrcs",
                                 !.values = values,
                                 !.requested =
                                     RequestWindow(window.begin_date,
                                                   window.end_date)]
              /\ wx_data' = DictSet(wx_data,
                                    station.desired_data[fetched + 1],
                                    NrcsReduce(values))
    /\ fetched' = fetched + 1
    /\ pc' = IF fetched' = Len(station.desired_data)
             THEN "identity" ELSE "get_data"
    /\ UNCHANGED <<config, now, station, final_data, window, assembled,
                   warnings, status, csv_written, csv_row, uploaded>>

\* get_nrcs_data: the SOAP client raises (unreachable service, fault,
\* malformed envelope); nothing catches it.
NrcsTransportFailure ==
    /\ pc = "get_data"
    /\ station.provider = "nrcs"
    /\ fetched < Len(station.desired_data)
    /\ \E kind \in {"unreachable", "SOAP fault", "malformed envelope"} :
          response' = [NoResponse EXCEPT !.kind = kind]
    /\ Die
    /\ UNCHANGED <<config, now, station, final_data, window, fetched,
                   wx_data, assembled, warnings, csv_written, csv_row,
                   uploaded>>

\* get_mesowest_data, lines 545-669, for a payload that has OBSERVATIONS.
GetMesowestData ==
    /\ pc = "get_data"
    /\ station.provider = "mesowest"
    /\ \E n \in 1 .. MaxLen, K \in SUBSET Elements(station.desired_data) :
       \E f \in [K -> [1 .. n -> SampleValues]] :
          LET obs == MesowestObservations(n, f)
          IN  /\ response' = [NoResponse EXCEPT
                                 !.kind = "mesowest",
                                 !.observations = obs,
                                 !.requested =
                                     RequestWindow(window.begin_date,
                                                   window.end_date)]
              /\ wx_data' = get_mesowest_data(obs, station)
    /\ pc' = "identity"
    /\ UNCHANGED <<config, now, station, final_data, window, fetched,
                   assembled, warnings, status, csv_written, csv_row,
                   uploaded>>

\* get_mesowest_data, lines 516-543: no connection, a body that is not JSON,
\* or JSON without STATION[0].OBSERVATIONS; each ends in sys.exit(1).
MesowestTransportFailure ==
    /\ pc = "get_data"
    /\ station.provider = "mesowest"
    /\ \E kind \in {"ConnectionError", "bad JSON", "unexpected JSON"} :
          response' = [NoResponse EXCEPT !.kind = kind]
    /\ Die
    /\ UNCHANGED <<config, now, station, final_data, window, fetched,
                   wx_data, assembled, warnings, csv_written, csv_row,
                   uploaded>>

\* main, lines 264-276: the custom program returns a dict, or None, which
\* main replaces by [].
GetCustomData ==
    /\ pc = "get_data"
    /\ station.provider = "python"
    /\ \E d \in PythonResponses \cup {EmptyDict} :
          wx_data' = d
    /\ response' = [NoResponse EXCEPT !.kind = "python"]
    /\ pc' = "identity"
    /\ UNCHANGED <<config, now, station, final_data, window, fetched,
                   assembled, warnings, status, csv_written, csv_row,
                   uploaded>>

\* main, lines 277-293: the program is missing, does not load, or raises.
CustomFailure ==
    /\ pc = "get_data"
    /\ station.provider = "python"
    /\ \E kind \in {"not found", "load error", "raised"} :
          response' = [NoResponse EXCEPT !.kind = kind]
    /\ Die
    /\ UNCHANGED <<config, now, station, final_data, window, fetched,
                   wx_data, assembled, warnings, csv_written, csv_row,
                   uploaded>>

\* main, lines 301-308.
WriteIdentity ==
    /\ pc = "identity"
    /\ final_data' =
          [final_data EXCEPT
              ![fmap["Location UUID"]] = Str(LocationUuid),
              ![fmap["obDate"]] = ObDate(window.end_date, station.tz),
              ![fmap["obTime"]] = ObTime(window.end_date, station.tz),
              ![fmap["timeZone"]] = Str(station.tz)]
    /\ pc' = IF wx_data.keys = << >> THEN "output" ELSE "assemble"
    /\ UNCHANGED <<config, now, station, window, response, fetched, wx_data,
                   assembled, warnings, status, csv_written, csv_row,
                   uploaded>>

\* Massaged with the two steps exchanged: the precision massage first, the
\* NRCS conversion after it.
MassagedRoundFirst(element_cd, value) ==
    IF station.provider = "nrcs" /\ station.units = "metric"
    THEN convert_nrcs_units_to_metric(element_cd,
             MassagePrecision(element_cd, value))
    ELSE MassagePrecision(element_cd, value)

\* The value one iteration of the assembly loop writes for a present value.
Massaged(element_cd, value) ==
    MassagePrecision(element_cd,
        IF station.provider = "nrcs" /\ station.units = "metric"
        THEN convert_nrcs_units_to_metric(element_cd, value)
        ELSE value)

\* AssembleElement without the membership test: an element the mapping does
\* not contain raises KeyError at the lookup, which ends the run.
AssembleElementNoKeyTest ==
    /\ pc = "assemble"
    /\ assembled < Len(wx_data.keys)
    /\ LET element_cd == wx_data.keys[assembled + 1]
           iemap == setup_infoex_counterparts_mapping(station.provider)
       IN  IF element_cd \notin DOMAIN iemap
           THEN /\ Die
                /\ UNCHANGED <<warnings, wx_data, final_data>>
           ELSE /\ pc' = IF assembled + 1 = Len(wx_data.keys)
                         THEN "output" ELSE "assemble"
                /\ UNCHANGED <<warnings, status>>
                /\ IF wx_data.val[element_cd] = None
                   THEN UNCHANGED <<wx_data, final_data>>
                   ELSE LET v == Massaged(element_cd, wx_data.val[element_cd])
                        IN  /\ wx_data' = [wx_data EXCEPT !.val[element_cd] = v]
                            /\ final_data' =
                                  [final_data EXCEPT
                                      ![fmap[iemap[element_cd]]] = v]
    /\ assembled' = assembled + 1
    /\ UNCHANGED <<config, now, station, window, response, fetched,
                   csv_written, csv_row, uploaded>>

\* main, lines 310-348: one iteration of the loop over infoex['wx_data'].
AssembleElement ==
    /\ pc = "assemble"
    /\ assembled < Len(wx_data.keys)
    /\ LET element_cd == wx_data.keys[assembled + 1]
           iemap == setup_infoex_counterparts_mapping(station.provider)
       IN  IF element_cd \notin DOMAIN iemap
           THEN /\ warnings' = warnings \cup {element_cd}
                /\ UNCHANGED <<wx_data, final_data>>
           ELSE IF wx_data.val[element_cd] = None
           THEN UNCHANGED <<warnings, wx_data, final_data>>
           ELSE LET v == Massaged(element_cd, wx_data.val[element_cd])
                IN  /\ wx_data' = [wx_data EXCEPT !.val[element_cd] = v]
                    /\ final_data' =
                          [final_data EXCEPT ![fmap[iemap[element_cd]]] = v]
                    /\ UNCHANGED warnings
    /\ assembled' = assembled + 1
    /\ pc' = IF assembled' = Len(wx_data.keys) THEN "output" ELSE "assemble"
    /\ UNCHANGED <<config, now, station, window, response, fetched, status,
                   csv_written, csv_row, uploaded>>

\* main, lines 352-362: the row is written and, unless --dry-run, uploaded,
\* when wx_data is not empty; main returns 0.
Output ==
    /\ pc = "output"
    /\ IF wx_data.keys # << >>
       THEN /\ csv_written' = TRUE
            /\ csv_row' = final_data
            /\ \E dry_run \in BOOLEAN : uploaded' = ~dry_run
       ELSE UNCHANGED <<csv_written, csv_row, uploaded>>
    /\ status' = 0
    /\ pc' = "done"
    /\ UNCHANGED <<config, now, station, final_data, window, response,
                   fetched, wx_data, assembled, warnings>>

Next ==
    \/ SetupConfig
    \/ SetupMappings
    \/ SwitchUnits
    \/ SetupTimeValues
    \/ NrcsRequest
    \/ NrcsTransportFailure
    \/ GetMesowestData
    \/ MesowestTransportFailure
    \/ GetCustomData
    \/ CustomFailure
    \/ WriteIdentity
    \/ AssembleElement
    \/ Output

Spec == Init /\ [][Next]_vars

\* ================================================================ claims
\* Vocabulary of the claims.
NonNull(series) == {i \in 1 .. Len(series) : series[i] # None}

NrcsNonNull(values) == {i \in 1 .. Len(values) : values[i].value # None}

Iemap == setup_infoex_counterparts_mapping(station.provider)

CellOf(element_cd) == fmap[Iemap[element_cd]]

Observations == response.observations

\* The states between the return of the provider function and the first
\* iteration of the assembly loop: wx_data is as the provider returned it.
AfterMesowest == response.kind = "mesowest" /\ pc = "identity"

AfterNrcsRequest ==
    response.kind = "nrcs" /\ pc \in {"get_data", "identity"}

\* ---------------------------------------------------------------------- C1
\* C1: in normal mode the value reported for an element whose series has a
\* non-null sample is the value of the non-null sample with the greatest
\* timestamp (in the unit the provider function reports), for get_nrcs_data
\* and get_mesowest_data alike, whatever the order of the samples and also
\* when the newest sample is null.
C1_MostRecentNonNull ==
    /\ (AfterNrcsRequest /\ station.wind_mode = "normal") =>
          LET values == response.values
              nn == NrcsNonNull(values)
          IN  nn # {} =>
                 wx_data.val[station.desired_data[fetched]] =
                    values[CHOOSE i \in nn : \A j \in nn :
                              values[j].dateTime <= values[i].dateTime].value
    /\ (AfterMesowest /\ station.wind_mode = "normal") =>
          \A e \in DOMAIN Observations.sets :
             LET series == Observations.sets[e]
                 nn == NonNull(series)
             IN  nn # {} =>
                    wx_data.val[e] =
                       MesoConvert(e,
                           series[CHOOSE i \in nn : \A j \in nn :
                                     Observations.date_time[j]
                                        <= Observations.date_time[i]],
                           station)

C3_Hn24FirstMinusLast ==
    AfterMesowest =>
       LET sets == Observations.sets
           series == IF "snow_depth" \in DOMAIN sets
                     THEN sets["snow_depth"] ELSE << >>
           nn == NonNull(series)
       IN  IF nn = {}
           THEN "hn24" \notin DOMAIN wx_data.val
           ELSE LET first == series[CHOOSE i \in nn : \A j \in nn : i <= j]
                    last == series[CHOOSE i \in nn : \A j \in nn : j <= i]
                    raw == RatSub(first, last)
                    diff == IF station.units = "metric"
                            THEN RatMul(raw, Num(1, 10)) ELSE raw
                IN  /\ "hn24" \in DOMAIN wx_data.val
                    /\ wx_data.val["hn24"] =
                          IF diff.n > 0 THEN diff ELSE Num(0, 1)

\* A snow series that starts with a null sample and then falls from 1.128 to
\* 0: HN24 is positive and the null sample took no part.
C3_Witness ==
    /\ AfterMesowest
    /\ "snow_depth" \in DOMAIN Observations.sets
    /\ Len(Observations.sets["snow_depth"]) = 3
    /\ Observations.sets["snow_depth"][1] = None
    /\ Observations.sets["snow_depth"][2] # None
    /\ "hn24" \in DOMAIN wx_data.val
    /\ wx_data.val["hn24"].n > 0

\* ---------------------------------------------------------------------- C4
WindElements == {"WSPD", "WDIR", "wind_speed", "wind_gust", "wind_direction"}

\* Mean(reported, samples): reported is the arithmetic mean of the samples.
IsMeanOf(reported, samples) ==
    /\ IsNum(reported)
    /\ RatMul(reported, Num(Len(samples), 1)) = Sum(samples)

\* C4: in average wind mode, for every provider that reduces raw series, the
\* value reported for a wind element is the mean of the non-null samples of
\* its series (None when there is none); in normal mode the reported value
\* is None or one of the samples, never a mean.
C4_WindAverage ==
    /\ (AfterNrcsRequest /\ station.desired_data[fetched] \in WindElements) =>
          LET e == station.desired_data[fetched]
              values == response.values
              nn == SelectSeq([i \in 1 .. Len(values) |-> values[i].value],
                              LAMBDA v : v # None)
          IN  IF station.wind_mode = "average"
              THEN IF nn = << >> THEN wx_data.val[e] = None
                   ELSE IsMeanOf(wx_data.val[e], nn)
              ELSE wx_data.val[e] \in {None} \cup Elements(nn)
    /\ AfterMesowest =>
          \A e \in Elements(station.desired_data) \cap WindElements :
             LET series == IF e \in DOMAIN Observations.sets
                           THEN Observations.sets[e] ELSE << >>
                 conv == [i \in 1 .. Len(series) |->
                            IF series[i] = None THEN None
                            ELSE MesoConvert(e, series[i], station)]
                 nn == SelectSeq(conv, LAMBDA v : v # None)
             IN  IF station.wind_mode = "average"
                 THEN IF nn = << >> THEN wx_data.val[e] = None
                      ELSE IsMeanOf(wx_data.val[e], nn)
                 ELSE wx_data.val[e] \in {None} \cup Elements(nn)

\* ---------------------------------------------------------------------- C5
IdentityFields == {"Location UUID", "obDate", "obTime", "timeZone"}

NumericFields ==
    {FieldOrder[i] : i \in 1 .. Len(FieldOrder)}
        \ (IdentityFields \cup UnitFields)

\* C5: after the assembly loop the record has exactly 29 positions, 0 to 28,
\* in the schema order (each unit label is a string at its own position,
\* each measurement position holds a number or None), for every provider,
\* unit system and set of upstream elements; the row written is that record.
C5_Record29 ==
    pc \in {"output", "done"} =>
       /\ DOMAIN final_data = 0 .. 28
       /\ Cardinality(DOMAIN final_data) = 29
       /\ \A i \in DOMAIN final_data :
             final_data[i].t \in {"None", "str", "num", "date", "time"}
       /\ \A u \in UnitFields : final_data[fmap[u]].t = "str"
       /\ \A f \in NumericFields : final_data[fmap[f]].t \in {"None", "num"}
       /\ final_data[0].t = "str"
       /\ final_data[1].t = "date"
       /\ final_data[2].t = "time"
       /\ final_data[3].t = "str"
       /\ final_data[28].t = "str"
       /\ csv_written => csv_row = final_data

\* A finished run of the custom provider that returned all ten elements
\* with a value: the row is written and has a number in ten positions.
C5_Witness ==
    /\ pc = "done"
    /\ station.provider = "python"
    /\ Len(wx_data.keys) = 10
    /\ csv_written
    /\ Cardinality({i \in DOMAIN csv_row : csv_row[i].t = "num"}) = 10

\* ---------------------------------------------------------------------- C6
\* Decimals(v, k): the number v has at most k decimal places.
Decimals(v, k) == IsNum(v) /\ Pow10(k) % v.d = 0

ZeroDecimalFields ==
    {"rH", "windSpeedNum", "windDirectionNum", "windGustSpeedNum", "hS",
     "hn24Auto"}

OneDecimalFields == {"tempPres", "baro"}

TwoDecimalFields == {"precipitationGauge"}

\* C6: for every provider, a present value is written with the precision of
\* its category: 0 decimals for humidity, wind speed, direction and gust,
\* snow height and HN24, 1 for air temperature and pressure, 2 for
\* precipitation.
C6_RoundedByCategory ==
    (pc = "done" /\ csv_written) =>
       /\ \A f \in ZeroDecimalFields :
             csv_row[fmap[f]] # None => Decimals(csv_row[fmap[f]], 0)
       /\ \A f \in OneDecimalFields :
             csv_row[fmap[f]] # None => Decimals(csv_row[fmap[f]], 1)
       /\ \A f \in TwoDecimalFields :
             csv_row[fmap[f]] # None => Decimals(csv_row[fmap[f]], 2)

\* ---------------------------------------------------------------------- C7
BeforeNumericWrites ==
    {"setup_mappings", "switch_units", "setup_time_values", "get_data",
     "identity"}

HasRecord == pc \notin {"setup_config", "setup_mappings", "failed"}

\* The positions where the record differs from its schema defaults.
ChangedFromDefault ==
    {i \in Positions : final_data[i] # InitialFinalData(LocationUuid)[i]}

MetricRun ==
    station.provider \in {"nrcs", "mesowest"} /\ station.units = "metric"

\* The statement of C7 for a given number of overwritten labels: with the
\* metric unit system the step that follows the schema defaults overwrites
\* exactly `count` positions, all of them unit labels, with metric labels,
\* and leaves every other position as it was; the labels are in place while
\* every measurement position is still None, and stay; with any other unit
\* system every label keeps its schema default.
C7_LabelSwitch(count) ==
    /\ pc = "setup_time_values" =>
          IF MetricRun
          THEN /\ Cardinality(ChangedFromDefault) = count
               /\ ChangedFromDefault \subseteq {fmap[u] : u \in UnitFields}
               /\ \A i \in ChangedFromDefault :
                     final_data[i] \in {Str("C"), Str("mm"), Str("cm"),
                                        Str("m/s")}
          ELSE ChangedFromDefault = {}
    /\ pc \in BeforeNumericWrites \ {"setup_mappings"} =>
          \A f \in NumericFields : final_data[fmap[f]] = None
    /\ HasRecord =>
          IF MetricRun /\ pc # "switch_units"
          THEN Cardinality({u \in UnitFields :
                  final_data[fmap[u]] # Str(DefaultUnits[u])}) = count
          ELSE \A u \in UnitFields :
                  final_data[fmap[u]] = Str(DefaultUnits[u])

\* C7 as stated: nine unit labels are overwritten.
C7_NineLabels == C7_LabelSwitch(9)

\* C7 as amended: the ten unit labels other than baroUnit are overwritten
\* (for the NRCS and MesoWest providers, the ones that have a unit system).
C7_TenLabels ==
    /\ C7_LabelSwitch(10)
    /\ (HasRecord /\ pc # "switch_units") =>
          final_data[fmap["baroUnit"]] = Str("inHg")

\* Right after the switch of a metric run: the last label of the record is
\* metric, the pressure label is not, no measurement has been written.
C7_Witness ==
    /\ pc = "setup_time_values"
    /\ MetricRun
    /\ final_data[fmap["hstAutoUnit"]] = Str("cm")
    /\ final_data[fmap["baroUnit"]] = Str("inHg")
    /\ final_data[fmap["hS"]] = None

\* ---------------------------------------------------------------------- C8
FailureKinds ==
    {"unreachable", "SOAP fault", "malformed envelope", "ConnectionError",
     "bad JSON", "unexpected JSON", "not found", "load error", "raised"}

\* C8: an element of the fetched data that the provider's mapping does not
\* contain is logged, writes nothing into the record and does not end the
\* run; the loop goes on, and after any number of iterations each
\* measurement position holds the value of the mapped, present element
\* handled so far that targets it, and None otherwise.
C8_UnknownElementSkipped ==
    /\ pc \in {"assemble", "output", "done"} =>
          LET processed == {wx_data.keys[i] : i \in 1 .. assembled}
              known == {e \in processed :
                           e \in DOMAIN Iemap /\ wx_data.val[e] # None}
          IN  /\ warnings = {e \in processed : e \notin DOMAIN Iemap}
              /\ \A f \in NumericFields :
                    final_data[fmap[f]] =
                       IF \E e \in known : Iemap[e] = f
                       THEN wx_data.val[CHOOSE e \in known : Iemap[e] = f]
                       ELSE None
              /\ pc = "assemble" => assembled < Len(wx_data.keys)
              /\ pc = "done" => assembled = Len(wx_data.keys) /\ status = 0
    /\ status = 1 => (warnings = {} /\ assembled = 0)

\* A finished MesoWest run that met the unknown element first and then wrote
\* the wind speed.
C8_Witness ==
    /\ pc = "done"
    /\ wx_data.keys = <<"dew_point_temperature", "wind_speed">>
    /\ warnings = {"dew_point_temperature"}
    /\ csv_row[fmap["windSpeedNum"]] # None

\* ---------------------------------------------------------------------- C9
InvalidConfig ==
    \/ config.provider \in {"nrcs", "mesowest"}
          /\ config.units \notin {"imperial", "metric"}
    \/ config.wind_mode \notin {"absent", "normal", "average"}
    \/ config.tz \notin ValidTimezones \cup {"absent"}

\* C9: a configuration with an invalid unit system, wind mode or timezone
\* ends the run inside setup_config: the fetch window is never computed and
\* no fetch begins.
C9_InvalidConfigIsFatal ==
    InvalidConfig =>
       /\ pc \in {"setup_config", "failed"}
       /\ window = NoWindow
       /\ response = NoResponse

\* --------------------------------------------------------------------- C10
\* C10: a run that meets a fatal error (a configuration setup_config
\* rejects, a transport failure, a failing custom program) writes and
\* uploads no record and ends with status 1; a run that ends otherwise ends
\* with status 0, and only such a run writes a record.
C10_FatalMeansNoRecord ==
    /\ status \in {Running, 0, 1}
    /\ (~setup_config(config).ok \/ response.kind \in FailureKinds) =>
          /\ pc \in {"setup_config", "failed"}
          /\ pc = "failed" => status = 1
    /\ pc = "failed" =>
          /\ status = 1
          /\ ~csv_written /\ ~uploaded /\ csv_row = NoRecord
          /\ ~setup_config(config).ok \/ response.kind \in FailureKinds
    /\ pc = "done" =>
          /\ status = 0
          /\ setup_config(config).ok
          /\ response.kind \in {"nrcs", "mesowest", "python"}
    /\ (csv_written \/ uploaded) => status # 1
    /\ status = 1 <=> pc = "failed"
    /\ status = 0 <=> pc = "done"

\* A MesoWest run ended by a response body that is not JSON.
C10_Witness ==
    /\ pc = "failed"
    /\ response.kind = "bad JSON"
    /\ status = 1
    /\ ~csv_written

\* --------------------------------------------------------------------- C11
\* C11: every run that does not end in a fatal error has computed its fetch
\* window (once: the window it ends with is the one setup_time_values gave)
\* and has handed one complete record to the writer, whatever the source
\* returned, a mapping with no elements or with only absent values included.
C11_OneWindowOneRecord ==
    pc = "done" =>
       /\ window = setup_time_values(now, station)
       /\ csv_written
       /\ DOMAIN csv_row = Positions
       /\ csv_row = final_data

\* --------------------------------------------------------------------- C12
\* The states after setup_config has returned a station.
AfterSetup == pc \notin {"setup_config", "failed"} \/ station # NoStation

\* C12: once setup_config has returned, for every combination of the hn24
\* setting (absent, 'false', 'true') and the wind mode (absent, 'normal',
\* 'average') the fetch window is 24 hours long if hn24 is 'true' or the wind
\* mode is 'average' and 3 hours long otherwise: a 'normal' wind mode or a
\* 'false' hn24 never shrinks it.  The window computed later has that length.
C12_WindowHours ==
    AfterSetup =>
       /\ config.hn24 \in {"absent", "false", "true"}
       /\ config.wind_mode \in {"absent", "normal", "average"}
       /\ station.hn24 = (config.hn24 = "true")
       /\ station.num_hrs_to_fetch =
             IF config.hn24 = "true" \/ config.wind_mode = "average"
             THEN 24 ELSE 3
       /\ window # NoWindow =>
             window.end_date - window.begin_date
                = 3600 * station.num_hrs_to_fetch

\* hn24 'true' followed by an explicit 'normal' wind mode: the window that is
\* computed is 24 hours long.
C12_Witness ==
    /\ pc = "get_data"
    /\ config.hn24 = "true"
    /\ config.wind_mode = "normal"
    /\ station.num_hrs_to_fetch = 24
    /\ window.end_date - window.begin_date = 86400

\* --------------------------------------------------------------------- C13
\* C13: whatever the current time, end is on an exact hour boundary,
\* end <= now < end + 1 hour and begin = end - window hours; the window is
\* computed once, and every request of the run carries that begin and end.
C13_WindowOnTheHour ==
    /\ pc \in {"setup_config", "setup_mappings", "switch_units",
               "setup_time_values"} => window = NoWindow
    /\ pc \in {"get_data", "identity", "assemble", "output", "done"} =>
          /\ window.end_date % 3600 = 0
          /\ window.end_date <= now
          /\ now < window.end_date + 3600
          /\ window.begin_date
                = window.end_date - 3600 * station.num_hrs_to_fetch
          /\ ObTime(window.end_date, station.tz).n % 60 = 0
    /\ response.kind \in {"nrcs", "mesowest"} => response.requested = window

\* The second of two NRCS requests of a run that started 61 seconds after
\* the hour: it carries the window the first one carried.
C13_Witness ==
    /\ station.provider = "nrcs"
    /\ fetched = 2
    /\ now = window.end_date + 61
    /\ response.requested = window

\* --------------------------------------------------------------------- C14
\* C14: no conversion and no rounding is ever applied to None.  No value of
\* the fetched data and no cell of the record is the TypeError such an
\* application raises; a value of the fetched data is None or a number; a
\* MesoWest series whose samples are all None is reported as None and adds
\* nothing to hn24; and an element whose reduced value is None has left its
\* cell None once the assembly loop has handled it.
C14_NoneIsSkipped ==
    /\ \A k \in DOMAIN wx_data.val :
          wx_data.val[k] = None \/ IsNum(wx_data.val[k])
    /\ \A i \in DOMAIN final_data : final_data[i] # TypeError
    /\ \A i \in DOMAIN csv_row : csv_row[i] # TypeError
    /\ AfterMesowest =>
          \A e \in DOMAIN Observations.sets :
             NonNull(Observations.sets[e]) = {} =>
                /\ wx_data.val[e] = None
                /\ e = "snow_depth" => "hn24" \notin DOMAIN wx_data.val
    /\ pc \in {"assemble", "output", "done"} =>
          \A i \in 1 .. assembled :
             LET e == wx_data.keys[i]
             IN  (e \in DOMAIN Iemap /\ wx_data.val[e] = None) =>
                    final_data[CellOf(e)] = None

\* A finished metric MesoWest run whose snow-depth series starts with a None
\* sample and ends with one: the snow height cell is None, and hn24 was
\* derived from the samples in between.
C14_Witness ==
    /\ pc = "done"
    /\ response.kind = "mesowest"
    /\ station.units = "metric"
    /\ "snow_depth" \in DOMAIN Observations.sets
    /\ Observations.sets["snow_depth"][1] = None
    /\ wx_data.val["snow_depth"] = None
    /\ csv_row[fmap["hS"]] = None
    /\ IsNum(csv_row[fmap["hn24Auto"]])

\* --------------------------------------------------------------------- C15
\* The last element an NRCS run requested, and the value get_nrcs_data
\* reduced its response to.
LastRequested == station.desired_data[Len(station.desired_data)]

LastReduced == NrcsReduce(response.values)

\* The metric counterpart of an imperial value, by element: Fahrenheit to
\* Celsius, inches to centimetres, inches to millimetres.
MetricOf(e, v) ==
    IF e = "TOBS" THEN RatMul(RatSub(v, Num(32, 1)), Num(5, 9))
    ELSE IF e = "SNWD" THEN RatMul(v, Num(254, 100))
    ELSE IF e = "PREC" THEN RatMul(v, Num(254, 10))
    ELSE v

\* The rounding of the assembly loop, by element.
RoundedOf(e, v) ==
    IF e \in {"WSPD", "WDIR", "RHUM", "SNWD"} THEN Round(v, 0)
    ELSE IF e \in {"TOBS", "PRES"} THEN Round(v, 1)
    ELSE IF e = "PREC" THEN Round(v, 2)
    ELSE v

\* C15: for the NRCS provider the cell of a present value holds
\* round(convert(v)) with the metric unit system, convert being chosen by
\* the element (TOBS, SNWD, PREC), and round(v) with the imperial one.
C15_ConvertThenRound ==
    (/\ station.provider = "nrcs"
     /\ pc \in {"output", "done"}
     /\ LastRequested \in DOMAIN NrcsMap
     /\ LastReduced # None) =>
        final_data[fmap[NrcsMap[LastRequested]]] =
           IF station.units = "metric"
           THEN RoundedOf(LastRequested, MetricOf(LastRequested, LastReduced))
           ELSE RoundedOf(LastRequested, LastReduced)

\* A finished metric NRCS run that fetched an air temperature of 1.128 F:
\* the cell holds -17.2, which is round(convert(v)); convert(round(v))
\* would be -17.1666...
C15_Witness ==
    /\ station.provider = "nrcs"
    /\ station.units = "metric"
    /\ pc = "done"
    /\ LastRequested = "TOBS"
    /\ LastReduced = Num(141, 125)
    /\ csv_row[fmap["tempPres"]] = Num(0 - 86, 5)
    /\ csv_row[fmap["tempPres"]] # MetricOf("TOBS", Round(LastReduced, 1))

\* --------------------------------------------------------------------- C16
\* C16: the hn24Auto cell holds a value only in a run whose hn24 setting is
\* 'true'; with the setting 'false' or absent no hn24 value is derived and
\* the cell stays None, whatever snow-depth samples the source returned.
C16_Hn24OnlyWhenEnabled ==
    (HasRecord /\ ~station.hn24) =>
       /\ "hn24" \notin DOMAIN wx_data.val
       /\ final_data[fmap["hn24Auto"]] = None

\* --------------------------------------------------------------------- C17
\* C17: in normal wind mode a MesoWest series whose most recent sample is
\* exactly 0 is reported as 0, and once the run has assembled its record the
\* cell of the element holds 0, not None.
C17_ZeroIsData ==
    (/\ response.kind = "mesowest"
     /\ station.wind_mode = "normal"
     /\ pc \in {"identity", "assemble", "output", "done"}) =>
        \A e \in DOMAIN Observations.sets :
           LET series == Observations.sets[e]
           IN  series[Len(series)] = Num(0, 1) =>
                  /\ wx_data.val[e] = Num(0, 1)
                  /\ (pc \in {"output", "done"} /\ e \in DOMAIN MesowestMap) =>
                        final_data[fmap[MesowestMap[e]]] = Num(0, 1)

\* --------------------------------------------------------------------- C18
\* The unit-label cell beside each measurement cell the statement names.
UnitLabelOf ==
    [tempPres |-> "tempPresUnit", tempMaxHour |-> "tempMaxHourUnit",
     tempMinHour |-> "tempMinHourUnit",
     precipitationGauge |-> "precipitationGaugeUnit", hS |-> "hsUnit",
     windSpeedNum |-> "windSpeedUnit",
     windGustSpeedNum |-> "windGustSpeedNumUnit",
     hn24Auto |-> "hn24AutoUnit"]

\* An imperial value (F, in, mph) expressed in the unit a label names.
InUnit(label, v) ==
    IF label = Str("C") THEN RatMul(RatSub(v, Num(32, 1)), Num(5, 9))
    ELSE IF label = Str("cm") THEN RatMul(v, Num(254, 100))
    ELSE IF label = Str("mm") THEN RatMul(v, Num(254, 10))
    ELSE IF label = Str("m/s") THEN RatMul(v, Num(44704, 100000))
    ELSE v

\* C18: in a finished record a present value is expressed in the unit its
\* own unit-label cell names.  For the NRCS provider, whose values arrive
\* imperial whatever the unit system: beside a label switched to C, mm, cm
\* or m/s the cell holds the value converted to that unit (then rounded),
\* beside a label left at F, in or mph it holds the imperial value.
C18_ValueInLabelledUnit ==
    (/\ station.provider = "nrcs"
     /\ pc \in {"output", "done"}
     /\ LastRequested \in DOMAIN NrcsMap
     /\ NrcsMap[LastRequested] \in DOMAIN UnitLabelOf
     /\ LastReduced # None) =>
        LET field == NrcsMap[LastRequested]
            label == final_data[fmap[UnitLabelOf[field]]]
        IN  final_data[fmap[field]] =
               RoundedOf(LastRequested, InUnit(label, LastReduced))

\* --------------------------------------------------------------------- C19
\* The positions of the measurement cells.
NumericPositions == {fmap[f] : f \in NumericFields}

Injective(f) == \A a, b \in DOMAIN f : f[a] = f[b] => a = b

\* The keys of the fetched data that are mapped and hold a value.
Written ==
    {e \in Elements(wx_data.keys) \cap DOMAIN Iemap : wx_data.val[e] # None}

\* One iteration of the assembly loop changes at most the cell of the
\* element it handles, a measurement cell.
AssemblyFrame ==
    pc = "assemble" =>
       \A i \in Positions :
          final_data'[i] # final_data[i] =>
             /\ i \in NumericPositions
             /\ wx_data.keys[assembled + 1] \in DOMAIN Iemap
             /\ i = CellOf(wx_data.keys[assembled + 1])

\* C19: the mapping of every provider is injective and its targets are
\* measurement positions; an iteration of the assembly loop writes the cell
\* of its own element and nothing else, so no identity, time or unit-label
\* cell changes; and the finished record is a function of the set of
\* fetched elements, not of their order: a measurement cell holds the value
\* of the one mapped, present element that targets it, and None if there is
\* none.
C19_AssemblyFrame ==
    /\ [](\A p \in Providers :
             LET m == setup_infoex_counterparts_mapping(p)
             IN  /\ Injective(m)
                 /\ \A e \in DOMAIN m : fmap[m[e]] \in NumericPositions)
    /\ [][AssemblyFrame]_vars
    /\ [](pc \in {"output", "done"} =>
             \A f \in NumericFields :
                LET from == {e \in Written : Iemap[e] = f}
                IN  /\ Cardinality(from) <= 1
                    /\ from = {} => final_data[fmap[f]] = None
                    /\ \A e \in from : final_data[fmap[f]] = wx_data.val[e])

\* A finished run of a custom program that returned the relative humidity
\* before the snow height, both present: both cells are filled, the air
\* temperature cell is not.
C19_Witness ==
    /\ pc = "done"
    /\ wx_data.keys = <<"rH", "hS">>
    /\ csv_row[fmap["rH"]] = Num(141, 125)
    /\ csv_row[fmap["hS"]] = Num(0, 1)
    /\ csv_row[fmap["tempPres"]] = None

====
